---- MODULE Spec2Model ----
(***************************************************************************)
(* A model of the session layer of the webxr crates:                       *)
(*   - SessionInit::validate (webxr-api/session.rs), a pure function,      *)
(*     checked under SpecValidate;                                         *)
(*   - SessionThread, its control channel, its frame channel and its two   *)
(*     execution modes (run on a dedicated thread, run_one_frame on the    *)
(*     main thread), together with the content side (Session, Quitter),    *)
(*     checked under Spec and, for liveness, FairSpec.                     *)
(***************************************************************************)
EXTENDS Integers, Sequences, FiniteSets, TLC

\* ------------------------------------------------------------------------
\* Bounds of the model
\* ------------------------------------------------------------------------

\* longest required_features list that is enumerated
MaxRequired == 2

\* longest optional_features list that is enumerated
MaxOptional == 2

\* most messages waiting in a session's control channel
MaxQueue == 2

\* most RenderAnimationFrame messages the content side sends
MaxFrames == 2

\* most StartRenderLoop messages the content side sends
MaxStarts == 1

\* messages ever sent through Registry handles
MaxRequests == 2

\* length of the discovery list up to which register is called
MaxDiscoveries == 2

\* length of the mock list up to which register_mock is called
MaxMocks == 1

\* sessions the embedder puts on the steppable list itself
MaxSessions == 1

\* ------------------------------------------------------------------------
\* State
\* ------------------------------------------------------------------------

VARIABLES
    \* SessionInit::validate: its inputs and its result
    vMode,          \* mode: SessionMode
    vRequired,      \* self.required_features
    vOptional,      \* self.optional_features
    vSupported,     \* supported: &[String] (only `contains` is used on it)
    vResult,        \* the Result returned, NoResult before the call
    \* one SessionThread and the channels around it
    execMode,       \* "dedicated" (SessionBuilder::spawn) or "main" (run_on_main_thread)
    receiver,       \* the control channel: SessionMsg sent and not yet received
    frame_count,    \* SessionThread.frame_count
    running,        \* SessionThread.running
    device,         \* what the Device has been asked to do
    pc,             \* where the thread that drives the SessionThread is
    entry_count,    \* the local frame_count of run_one_frame
    frames,         \* the frame channel: Frames sent and not yet consumed
    emitted,        \* history: Frames ever sent, by the message that produced them
    \* the content side
    startSent,      \* StartRenderLoop messages sent
    rafSent,        \* RenderAnimationFrame messages sent
    disciplined,    \* history: the content side has followed the frame protocol so far
    session_dropped, \* the content side has dropped its Session
    credit,         \* while disciplined: Frames consumed and not yet answered by a
                    \* RenderAnimationFrame (0 once the protocol was broken)
    \* one MainThreadRegistry, its Registry handles and its owner thread
    discoveries,    \* MainThreadRegistry.discoveries
    sessions,       \* MainThreadRegistry.sessions: the steppable sessions
    mocks,          \* MainThreadRegistry.mocks
    reg_receiver,   \* MainThreadRegistry.receiver: RegistryMsg sent and not yet received
    regpc,          \* where the owner thread is: "idle", or in run_one_frame at
                    \* "drain" (the try_recv loop) or "step" (the session loop)
    step_index,     \* the position of the session loop of run_one_frame
    callbacks,      \* history: the callbacks invoked by the try_recv loop in
                    \* progress, with the result each was given
    delivered,      \* history: the requests whose callback was ever invoked
    requests,       \* history: messages ever sent through Registry handles
    session_count,  \* history: sessions ever put on the steppable list
    pending,        \* history: the requests that were waiting when the try_recv
                    \* loop in progress began
    stepped,        \* history: the sessions stepped by the session loop in progress
    next_session_id, \* the SessionId the next SessionBuilder will carry
    created,        \* history: the SessionIds of the sessions request_session returned
    \* one SessionBuilder, its caller, and the Session it hands out
    caller,         \* where the caller of spawn / run_on_main_thread is: "ready",
                    \* "blocked" (in ackr.recv()) or "returned"
    built,          \* the result of factory().and_then(SessionThread::new)
    ack,            \* the acknowledgment channel of spawn
    returned,       \* what spawn / run_on_main_thread returned
    handle,         \* the Session in the hands of the content side
    \* one layer manager
    manager,        \* "Surfman" (SurfmanLayerManager) or "Gl" (GlLayerManager)
    layer_ids,      \* the Vec<(ContextId, LayerId)> that layers() returns
    layer_map,      \* the keys of the HashMap<LayerId, _> of the manager
    next_layer_id,  \* the LayerId that the next LayerId::new() returns
    created_layers, \* history: the (context, layer) pairs create_layer returned Ok for
    last_call       \* history: the last call on the manager and its result

varsValidate == <<vMode, vRequired, vOptional, vSupported, vResult>>

threadVars == <<frame_count, running, device, pc, entry_count>>

contentVars == <<startSent, rafSent, disciplined, credit, session_dropped>>

varsSession == <<execMode, receiver, frames, emitted, threadVars, contentVars>>

varsRegistry ==
    <<discoveries, sessions, mocks, reg_receiver, regpc, step_index,
      callbacks, delivered, requests, session_count, pending, stepped,
      next_session_id, created>>

varsBuilder == <<caller, built, ack, returned, handle>>

varsLayers == <<manager, layer_ids, layer_map, next_layer_id, created_layers, last_call>>

vars == <<varsValidate, varsSession, varsRegistry, varsBuilder, varsLayers>>

\* ------------------------------------------------------------------------
\* SessionInit::validate
\* ------------------------------------------------------------------------

SessionMode == {"Inline", "ImmersiveVR", "ImmersiveAR"}

\* the feature names that are enumerated: the two names the code treats
\* specially and two ordinary ones
Features == {"viewer", "local", "local-floor", "bounded-floor"}

NoResult == [tag |-> "None"]

RECURSIVE SeqsUpTo(_, _)
SeqsUpTo(S, n) ==
    IF n = 0 THEN {<<>>}
    ELSE LET shorter == SeqsUpTo(S, n - 1)
         IN  shorter \cup {Append(s, x) : s \in {t \in shorter : Len(t) = n - 1}, x \in S}

\* the test of the loop over required_features that skips a feature
RequiredDefault_LocalAlways(f, mode) ==
    f = "viewer" \/ f = "local"

RequiredDefault(f, mode) ==
    f = "viewer" \/ (f = "local" /\ mode # "Inline")

\* the test of the loop over optional_features that grants a feature
OptionalGranted_SupportedOnly(f, mode, supported) ==
    f \in supported

OptionalGranted(f, mode, supported) ==
    \/ f = "viewer"
    \/ (f = "local" /\ mode # "Inline")
    \/ f \in supported

NoFeature == "<none>"

\* a loop over required_features that keeps the last offending feature
RECURSIVE RequiredLoop_Last(_, _, _)
RequiredLoop_Last(required, mode, supported) ==
    IF required = <<>> THEN NoFeature
    ELSE LET f == Head(required)
             rest == RequiredLoop_Last(Tail(required), mode, supported)
         IN  IF rest # NoFeature THEN rest
             ELSE IF RequiredDefault(f, mode) THEN NoFeature
             ELSE IF f \notin supported THEN f
             ELSE NoFeature

\* the loop over required_features: the feature of the early return, or
\* NoFeature when the loop runs to its end
RECURSIVE RequiredLoop(_, _, _)
RequiredLoop(required, mode, supported) ==
    IF required = <<>> THEN NoFeature
    ELSE LET f == Head(required)
         IN  IF RequiredDefault(f, mode)
             THEN RequiredLoop(Tail(required), mode, supported)
             ELSE IF f \notin supported
             THEN f
             ELSE RequiredLoop(Tail(required), mode, supported)

\* the loop over optional_features, pushing onto `granted`
RECURSIVE OptionalLoop(_, _, _, _)
OptionalLoop(granted, optional, mode, supported) ==
    IF optional = <<>> THEN granted
    ELSE LET f == Head(optional)
         IN  OptionalLoop(IF OptionalGranted(f, mode, supported)
                          THEN Append(granted, f)
                          ELSE granted,
                          Tail(optional), mode, supported)

\* a validate that grants "viewer" whether or not it was asked for
validate_GrantsViewer(required, optional, mode, supported) ==
    LET bad == RequiredLoop(required, mode, supported)
    IN  IF bad # NoFeature
        THEN [tag |-> "Err", error |-> "UnsupportedFeature", feature |-> bad]
        ELSE [tag |-> "Ok",
              granted |-> OptionalLoop(<<"viewer">> \o required, optional, mode, supported)]

validate(required, optional, mode, supported) ==
    LET bad == RequiredLoop(required, mode, supported)
    IN  IF bad # NoFeature
        THEN [tag |-> "Err", error |-> "UnsupportedFeature", feature |-> bad]
        ELSE [tag |-> "Ok",
              granted |-> OptionalLoop(required, optional, mode, supported)]

\* ------------------------------------------------------------------------
\* SessionMsg, Session and Quitter: the content side
\* ------------------------------------------------------------------------

\* the (near, far) pair and the event destination that are enumerated
ClipPlanes == {<<1, 10>>}

EventDests == {"dest1"}

NoValue == "none"

\* the receive endpoint is gone: the dedicated thread has left run(), or the
\* registry has dropped the stepped session
ReceiverDropped == pc \in {"exited", "dropped"}

\* Sender::send on the control channel; its result is ignored by every caller
Send(msg) ==
    /\ Len(receiver) < MaxQueue
    /\ receiver' = IF ReceiverDropped THEN receiver ELSE Append(receiver, msg)

\* The frame protocol of the content side: StartRenderLoop is sent once, and a
\* RenderAnimationFrame is sent only in answer to a Frame that was consumed.
\* `disciplined` records whether the sends so far followed it.

\* Session::start_render_loop
start_render_loop ==
    /\ ~session_dropped
    /\ startSent < MaxStarts
    /\ Send([type |-> "StartRenderLoop"])
    /\ startSent' = startSent + 1
    /\ disciplined' = (disciplined /\ startSent = 0)
    /\ credit' = IF disciplined' THEN credit ELSE 0
    /\ UNCHANGED <<varsValidate, varsLayers, varsRegistry, varsBuilder, execMode, frames, emitted, threadVars, rafSent, session_dropped>>

\* Session::render_animation_frame (the request time is 0 without profiling)
render_animation_frame ==
    /\ ~session_dropped
    /\ rafSent < MaxFrames
    /\ Send([type |-> "RenderAnimationFrame", time |-> 0])
    /\ rafSent' = rafSent + 1
    /\ disciplined' = (disciplined /\ credit > 0)
    /\ credit' = IF disciplined' THEN credit - 1 ELSE 0
    /\ UNCHANGED <<varsValidate, varsLayers, varsRegistry, varsBuilder, execMode, frames, emitted, threadVars, startSent, session_dropped>>

\* Session::update_clip_planes
update_clip_planes ==
    /\ ~session_dropped
    /\ \E p \in ClipPlanes :
           Send([type |-> "UpdateClipPlanes", near |-> p[1], far |-> p[2]])
    /\ UNCHANGED <<varsValidate, varsLayers, varsRegistry, varsBuilder, execMode, frames, emitted, threadVars, contentVars>>

\* Session::set_event_dest
set_event_dest ==
    /\ ~session_dropped
    /\ \E d \in EventDests : Send([type |-> "SetEventDest", dest |-> d])
    /\ UNCHANGED <<varsValidate, varsLayers, varsRegistry, varsBuilder, execMode, frames, emitted, threadVars, contentVars>>

\* Session::end_session
end_session ==
    /\ ~session_dropped
    /\ Send([type |-> "Quit"])
    /\ UNCHANGED <<varsValidate, varsLayers, varsRegistry, varsBuilder, execMode, frames, emitted, threadVars, contentVars>>

\* Quitter::quit: the device keeps its Quitter whatever becomes of the Session
quit ==
    /\ Send([type |-> "Quit"])
    /\ UNCHANGED <<varsValidate, varsLayers, varsRegistry, varsBuilder, execMode, frames, emitted, threadVars, contentVars>>

\* a drop of the Session that closes the control channel under the thread
drop_session_Disconnects ==
    /\ ~session_dropped
    /\ session_dropped' = TRUE
    /\ pc' = IF execMode = "dedicated" /\ pc = "recv" THEN "exited" ELSE pc
    /\ UNCHANGED <<varsValidate, varsLayers, varsRegistry, varsBuilder, execMode, receiver, frames, emitted,
                   frame_count, running, device, entry_count,
                   startSent, rafSent, disciplined, credit>>

\* the content side drops its Session, and with it one sender of the control
\* channel; the SessionThread holds another, so the channel stays connected
drop_session ==
    /\ ~session_dropped
    /\ session_dropped' = TRUE
    /\ UNCHANGED <<varsValidate, varsLayers, varsRegistry, varsBuilder, execMode, receiver, frames, emitted, threadVars,
                   startSent, rafSent, disciplined, credit>>

\* the consumer of the frame channel takes the oldest Frame
recv_frame ==
    /\ frames # <<>>
    /\ frames' = Tail(frames)
    /\ credit' = IF disciplined THEN credit + 1 ELSE 0
    /\ UNCHANGED <<varsValidate, varsLayers, varsRegistry, varsBuilder, execMode, receiver, emitted, threadVars, startSent, rafSent, disciplined, session_dropped>>

\* ------------------------------------------------------------------------
\* SessionThread
\* ------------------------------------------------------------------------

\* a loop condition that forgets the running flag
LoopCond_IgnoresRunning == entry_count = frame_count

\* a loop condition that forgets the frame count
LoopCond_IgnoresCount == running

\* the loop condition of run_one_frame
LoopCond == entry_count = frame_count /\ running

\* the thread is at a receive: recv() in run, recv_timeout() in run_one_frame.
\* recv() cannot fail while the SessionThread lives, which holds a sender of
\* its own channel, so run() leaves its loop only when handle_msg returns false.
AtReceive ==
    \/ execMode = "dedicated" /\ pc = "recv"
    \/ execMode = "main" /\ pc = "loop" /\ LoopCond

\* a receive that may return any waiting message of the wanted type
Receives_OutOfOrder(type) ==
    /\ AtReceive
    /\ \E i \in DOMAIN receiver :
           /\ receiver[i].type = type
           /\ receiver' = SubSeq(receiver, 1, i - 1) \o SubSeq(receiver, i + 1, Len(receiver))

\* a message is received: both receives return the oldest message at once when
\* there is one (recv_timeout gives up only on a channel that stayed empty)
Receives(type) ==
    /\ AtReceive
    /\ receiver # <<>>
    /\ Head(receiver).type = type
    /\ receiver' = Tail(receiver)

\* what the caller of handle_msg does with its result: run() leaves its loop
\* on false, run_one_frame stores the result in `running`
Handled(ok) ==
    IF execMode = "dedicated"
    THEN /\ running' = (running /\ ok)
         /\ pc' = IF ok THEN "recv" ELSE "exited"
    ELSE /\ running' = ok
         /\ pc' = "loop"

\* handle_msg, SessionMsg::SetEventDest
handle_SetEventDest ==
    /\ Receives("SetEventDest")
    /\ device' = [device EXCEPT !.event_dest = Head(receiver).dest]
    /\ Handled(TRUE)
    /\ UNCHANGED <<varsValidate, varsLayers, varsRegistry, varsBuilder, execMode, frames, emitted, frame_count, entry_count, contentVars>>

\* an UpdateClipPlanes handler that passes far for near and near for far
handle_UpdateClipPlanes_Swapped ==
    /\ Receives("UpdateClipPlanes")
    /\ device' = [device EXCEPT !.clip_planes = <<Head(receiver).far, Head(receiver).near>>]
    /\ Handled(TRUE)
    /\ UNCHANGED <<varsValidate, varsLayers, varsRegistry, varsBuilder, execMode, frames, emitted, frame_count, entry_count, contentVars>>

\* handle_msg, SessionMsg::UpdateClipPlanes
handle_UpdateClipPlanes ==
    /\ Receives("UpdateClipPlanes")
    /\ device' = [device EXCEPT !.clip_planes = <<Head(receiver).near, Head(receiver).far>>]
    /\ Handled(TRUE)
    /\ UNCHANGED <<varsValidate, varsLayers, varsRegistry, varsBuilder, execMode, frames, emitted, frame_count, entry_count, contentVars>>

\* a StartRenderLoop handler that counts a frame
handle_StartRenderLoop_CountsFrame ==
    /\ Receives("StartRenderLoop")
    /\ frame_count' = frame_count + 1
    /\ device' = [device EXCEPT !.wait_calls = @ + 1,
                                 !.calls = <<"wait_for_animation_frame">>]
    /\ pc' = "wait_start"
    /\ UNCHANGED <<varsValidate, varsLayers, varsRegistry, varsBuilder, execMode, frames, emitted, running, entry_count, contentVars>>

\* a StartRenderLoop handler that sends a Frame of its own before it waits
\* for the device's
handle_StartRenderLoop_SendsStale ==
    /\ Receives("StartRenderLoop")
    /\ device' = [device EXCEPT !.wait_calls = @ + 1,
                                 !.calls = <<"wait_for_animation_frame">>]
    /\ frames' = Append(frames, device.wait_calls)
    /\ emitted' = [emitted EXCEPT !.start = @ + 1]
    /\ pc' = "wait_start"
    /\ UNCHANGED <<varsValidate, varsLayers, varsRegistry, varsBuilder, execMode, frame_count, running, entry_count, contentVars>>

\* handle_msg, SessionMsg::StartRenderLoop, up to the call of
\* wait_for_animation_frame, which blocks
handle_StartRenderLoop ==
    /\ Receives("StartRenderLoop")
    /\ device' = [device EXCEPT !.wait_calls = @ + 1,
                                 !.calls = <<"wait_for_animation_frame">>]
    /\ pc' = "wait_start"
    /\ UNCHANGED <<varsValidate, varsLayers, varsRegistry, varsBuilder, execMode, frames, emitted, frame_count, running, entry_count, contentVars>>

\* a RenderAnimationFrame handler that renders and returns without waiting
\* for the next frame
handle_RenderAnimationFrame_NoWait ==
    /\ Receives("RenderAnimationFrame")
    /\ frame_count' = frame_count + 1
    /\ device' = [device EXCEPT !.render_calls = @ + 1]
    /\ Handled(TRUE)
    /\ UNCHANGED <<varsValidate, varsLayers, varsRegistry, varsBuilder, execMode, frames, emitted, entry_count, contentVars>>

\* a RenderAnimationFrame handler that waits for the next frame before it
\* renders
handle_RenderAnimationFrame_WaitsFirst ==
    /\ Receives("RenderAnimationFrame")
    /\ frame_count' = frame_count + 1
    /\ device' = [device EXCEPT !.render_calls = @ + 1, !.wait_calls = @ + 1,
                                 !.calls = <<"wait_for_animation_frame",
                                             "render_animation_frame">>]
    /\ pc' = "wait_raf"
    /\ UNCHANGED <<varsValidate, varsLayers, varsRegistry, varsBuilder, execMode, frames, emitted, running, entry_count, contentVars>>

\* handle_msg, SessionMsg::RenderAnimationFrame, up to the call of
\* wait_for_animation_frame, which blocks (frame_count is a u64; the content
\* side sends at most MaxFrames requests, so it stays far from 2^64).
\* device.calls lists, in order, the device calls made so far by the handling
\* in progress
handle_RenderAnimationFrame ==
    /\ Receives("RenderAnimationFrame")
    /\ frame_count' = frame_count + 1
    /\ device' = [device EXCEPT !.render_calls = @ + 1, !.wait_calls = @ + 1,
                                 !.calls = <<"render_animation_frame",
                                             "wait_for_animation_frame">>]
    /\ pc' = "wait_raf"
    /\ UNCHANGED <<varsValidate, varsLayers, varsRegistry, varsBuilder, execMode, frames, emitted, running, entry_count, contentVars>>

\* a wait that sends the Frame it got twice
wait_for_animation_frame_SendsTwice ==
    /\ pc \in {"wait_start", "wait_raf"}
    /\ \E some \in BOOLEAN :
           /\ IF some
              THEN /\ frames' = frames \o <<device.wait_calls, device.wait_calls>>
                   /\ emitted' = IF pc = "wait_raf"
                                 THEN [emitted EXCEPT !.raf = @ + 1]
                                 ELSE [emitted EXCEPT !.start = @ + 1]
              ELSE UNCHANGED <<frames, emitted>>
           /\ device' = [device EXCEPT !.exhausted = ~some, !.calls = <<>>]
           /\ Handled(some)
    /\ UNCHANGED <<varsValidate, varsLayers, varsRegistry, varsBuilder, execMode, receiver, frame_count, entry_count, contentVars>>

\* a wait whose None lets the loop go on
wait_for_animation_frame_NoneContinues ==
    /\ pc \in {"wait_start", "wait_raf"}
    /\ \E some \in BOOLEAN :
           /\ IF some
              THEN /\ frames' = Append(frames, device.wait_calls)
                   /\ emitted' = IF pc = "wait_raf"
                                 THEN [emitted EXCEPT !.raf = @ + 1]
                                 ELSE [emitted EXCEPT !.start = @ + 1]
              ELSE UNCHANGED <<frames, emitted>>
           /\ device' = [device EXCEPT !.exhausted = ~some, !.calls = <<>>]
           /\ Handled(TRUE)
    /\ UNCHANGED <<varsValidate, varsLayers, varsRegistry, varsBuilder, execMode, receiver, frame_count, entry_count, contentVars>>

\* wait_for_animation_frame returns: Some(frame) is sent on the frame channel
\* and handle_msg returns true, None (recorded in device.exhausted) makes
\* handle_msg return false
wait_for_animation_frame ==
    /\ pc \in {"wait_start", "wait_raf"}
    /\ \E some \in BOOLEAN :
           /\ IF some
              THEN /\ frames' = Append(frames, device.wait_calls)
                   /\ emitted' = IF pc = "wait_raf"
                                 THEN [emitted EXCEPT !.raf = @ + 1]
                                 ELSE [emitted EXCEPT !.start = @ + 1]
              ELSE UNCHANGED <<frames, emitted>>
           /\ device' = [device EXCEPT !.exhausted = ~some, !.calls = <<>>]
           /\ Handled(some)
    /\ UNCHANGED <<varsValidate, varsLayers, varsRegistry, varsBuilder, execMode, receiver, frame_count, entry_count, contentVars>>

\* a Quit handler that tells the device to quit and lets the loop go on
handle_Quit_KeepsRunning ==
    /\ Receives("Quit")
    /\ device' = [device EXCEPT !.quit_calls = @ + 1]
    /\ Handled(TRUE)
    /\ UNCHANGED <<varsValidate, varsLayers, varsRegistry, varsBuilder, execMode, frames, emitted, frame_count, entry_count, contentVars>>

\* a Quit handler that tells the device to quit twice
handle_Quit_QuitsTwice ==
    /\ Receives("Quit")
    /\ device' = [device EXCEPT !.quit_calls = @ + 2]
    /\ Handled(FALSE)
    /\ UNCHANGED <<varsValidate, varsLayers, varsRegistry, varsBuilder, execMode, frames, emitted, frame_count, entry_count, contentVars>>

\* handle_msg, SessionMsg::Quit
handle_Quit ==
    /\ Receives("Quit")
    /\ device' = [device EXCEPT !.quit_calls = @ + 1]
    /\ Handled(FALSE)
    /\ UNCHANGED <<varsValidate, varsLayers, varsRegistry, varsBuilder, execMode, frames, emitted, frame_count, entry_count, contentVars>>

\* MainThreadSession::run_one_frame is called
run_one_frame ==
    /\ execMode = "main"
    /\ pc = "idle"
    /\ entry_count' = frame_count
    /\ pc' = "loop"
    /\ UNCHANGED <<varsValidate, varsLayers, varsRegistry, varsBuilder, execMode, receiver, frames, emitted, frame_count, running, device, contentVars>>

\* a run_one_frame whose receive has no timeout: it returns only when its
\* loop condition is false
run_one_frame_return_NoTimeout ==
    /\ execMode = "main"
    /\ pc = "loop"
    /\ ~LoopCond
    /\ pc' = "idle"
    /\ UNCHANGED <<varsValidate, varsLayers, varsRegistry, varsBuilder, execMode, receiver, frames, emitted, frame_count, running, device, entry_count, contentVars>>

\* run_one_frame returns: its loop condition is false, or recv_timeout found
\* no message within TIMEOUT
run_one_frame_return ==
    /\ execMode = "main"
    /\ pc = "loop"
    /\ ~LoopCond \/ receiver = <<>>
    /\ pc' = "idle"
    /\ UNCHANGED <<varsValidate, varsLayers, varsRegistry, varsBuilder, execMode, receiver, frames, emitted, frame_count, running, device, entry_count, contentVars>>

\* MainThreadRegistry::run_one_frame, after the sessions were stepped:
\* sessions.retain(|session| session.running())
retain ==
    /\ execMode = "main"
    /\ pc = "idle"
    /\ ~running
    /\ pc' = "dropped"
    /\ UNCHANGED <<varsValidate, varsLayers, varsRegistry, varsBuilder, execMode, receiver, frames, emitted, frame_count, running, device, entry_count, contentVars>>

\* the steps of the thread that owns the SessionThread
ThreadStep ==
    \/ handle_SetEventDest
    \/ handle_UpdateClipPlanes
    \/ handle_StartRenderLoop
    \/ handle_RenderAnimationFrame
    \/ wait_for_animation_frame
    \/ handle_Quit
    \/ run_one_frame_return

\* the steps of the content side
ContentSend ==
    \/ start_render_loop
    \/ render_animation_frame
    \/ update_clip_planes
    \/ set_event_dest
    \/ end_session
    \/ quit

\* ------------------------------------------------------------------------
\* Registry and MainThreadRegistry
\* ------------------------------------------------------------------------

Ok(value) == [tag |-> "Ok", value |-> value]

Err(error) == [tag |-> "Err", error |-> error]

\* the modes asked for through a Registry handle
RequestModes == {"Inline", "ImmersiveVR"}

\* the Discovery implementations the embedder registers: a headset that runs
\* its ImmersiveVR sessions on the main thread and spawns a thread for its
\* Inline ones, and a device that claims ImmersiveVR but refuses the features
\* of every request
RegisteredDiscoveries == {"headset", "picky"}

\* the Discovery a MockDiscovery hands back
SimulatedDiscovery == "simulated"

\* the MockDiscovery implementations
MockDiscoveries == {"mock"}

\* what MockDiscovery::simulate_device_connection may return
MockResults == {Ok(SimulatedDiscovery), Err("NoMatchingDevice")}

MockDeviceInit == {"init"}

\* the SessionBuilder operations a Discovery ends a successful request with
BuilderOps == {"spawn", "run_on_main_thread"}

\* Discovery::supports_session
DiscoverySupports(d, mode) ==
    CASE d = "headset" -> TRUE
      [] d = "picky" -> mode = "ImmersiveVR"
      [] d = SimulatedDiscovery -> TRUE

\* Discovery::request_session: the SessionBuilder operation whose Session it
\* returns, or the Error it returns
DiscoveryRequest(d, mode) ==
    CASE d = "headset" ->
             IF mode = "ImmersiveVR" THEN "run_on_main_thread" ELSE "spawn"
      [] d = "picky" ->
             IF mode = "ImmersiveVR" THEN "UnsupportedFeature" ELSE "NoMatchingDevice"
      [] d = SimulatedDiscovery -> "run_on_main_thread"

\* a supports_session that asks the first discovery only
supports_session_FirstOnly(ds, mode) ==
    IF ds # <<>> /\ DiscoverySupports(ds[1], mode)
    THEN Ok("unit")
    ELSE Err("NoMatchingDevice")

RECURSIVE SupportsLoop(_, _, _)
\* the for loop of supports_session, from discovery i on
SupportsLoop(ds, mode, i) ==
    IF i > Len(ds)
    THEN Err("NoMatchingDevice")
    ELSE IF DiscoverySupports(ds[i], mode)
         THEN Ok("unit")
         ELSE SupportsLoop(ds, mode, i + 1)

supports_session(ds, mode) ==
    SupportsLoop(ds, mode, 1)

RECURSIVE RequestLoop_TriesAll(_, _, _, _, _)
\* a loop that goes on after a success and returns the first Session
RequestLoop_TriesAll(ds, mode, i, tried, found) ==
    IF i > Len(ds)
    THEN [result |-> found, tried |-> tried]
    ELSE LET out == DiscoveryRequest(ds[i], mode)
             now == Append(tried, [discovery |-> ds[i], index |-> i, outcome |-> out])
         IN  RequestLoop_TriesAll(ds, mode, i + 1, now,
                 IF out \in BuilderOps /\ found.tag = "Err"
                 THEN Ok([by |-> ds[i], index |-> i, op |-> out])
                 ELSE found)

request_session_TriesAll(ds, mode) ==
    RequestLoop_TriesAll(ds, mode, 1, <<>>, Err("NoMatchingDevice"))

RECURSIVE RequestLoop_LastError(_, _, _, _, _)
\* a loop that returns the Error of the last discovery that failed
RequestLoop_LastError(ds, mode, i, tried, last) ==
    IF i > Len(ds)
    THEN [result |-> Err(last), tried |-> tried]
    ELSE LET out == DiscoveryRequest(ds[i], mode)
             now == Append(tried, [discovery |-> ds[i], index |-> i, outcome |-> out])
         IN  IF out \in BuilderOps
             THEN [result |-> Ok([by |-> ds[i], index |-> i, op |-> out]), tried |-> now]
             ELSE RequestLoop_LastError(ds, mode, i + 1, now, out)

request_session_LastError(ds, mode) ==
    RequestLoop_LastError(ds, mode, 1, <<>>, "NoMatchingDevice")

RECURSIVE RequestLoop_Propagates(_, _, _, _)
\* a loop that returns a discovery's UnsupportedFeature to the requester
RequestLoop_Propagates(ds, mode, i, tried) ==
    IF i > Len(ds)
    THEN [result |-> Err("NoMatchingDevice"), tried |-> tried]
    ELSE LET out == DiscoveryRequest(ds[i], mode)
             now == Append(tried, [discovery |-> ds[i], index |-> i, outcome |-> out])
         IN  IF out \in BuilderOps
             THEN [result |-> Ok([by |-> ds[i], index |-> i, op |-> out]), tried |-> now]
             ELSE IF out = "UnsupportedFeature"
                  THEN [result |-> Err(out), tried |-> now]
                  ELSE RequestLoop_Propagates(ds, mode, i + 1, now)

request_session_Propagates(ds, mode) ==
    RequestLoop_Propagates(ds, mode, 1, <<>>)

RECURSIVE RequestLoop(_, _, _, _)
\* the for loop of request_session, from discovery i on: the result, and the
\* request_session calls made on discoveries (history)
RequestLoop(ds, mode, i, tried) ==
    IF i > Len(ds)
    THEN [result |-> Err("NoMatchingDevice"), tried |-> tried]
    ELSE LET out == DiscoveryRequest(ds[i], mode)
             now == Append(tried, [discovery |-> ds[i], index |-> i, outcome |-> out])
         IN  IF out \in BuilderOps
             THEN [result |-> Ok([by |-> ds[i], index |-> i, op |-> out]), tried |-> now]
             ELSE RequestLoop(ds, mode, i + 1, now)

request_session(ds, mode) ==
    RequestLoop(ds, mode, 1, <<>>)

\* an insertion at the end of the list
InsertFront_AtEnd(ds, d) ==
    Append(ds, d)

\* Vec::insert(0, d)
InsertFront(ds, d) ==
    <<d>> \o ds

RECURSIVE SimulateLoop(_, _, _, _, _)
\* the for loop of simulate_device_connection, from mock i on; answers[i] is
\* what mock i returns when asked, and the channel creation of iteration
\* fail_at fails (0: none does)
SimulateLoop(ms, ds, i, answers, fail_at) ==
    IF i > Len(ms)
    THEN [result |-> Err("NoMatchingDevice"), discoveries |-> ds]
    ELSE IF i = fail_at
         THEN [result |-> Err("CommunicationError"), discoveries |-> ds]
         ELSE IF answers[i].tag = "Ok"
              THEN [result |-> Ok("sender"),
                    discoveries |-> InsertFront(ds, answers[i].value)]
              ELSE SimulateLoop(ms, ds, i + 1, answers, fail_at)

simulate_device_connection(ms, ds, answers, fail_at) ==
    SimulateLoop(ms, ds, 1, answers, fail_at)

\* a retain that keeps every session
Retain_KeepsAll(ss) ==
    ss

\* Vec::retain(|session| session.running())
Retain(ss) ==
    SelectSeq(ss, LAMBDA session : session.running)

\* the SessionId of the SessionBuilder made for the attempt-th Discovery of a
\* request_session that found the counter at first: one fresh id for every
\* builder
SessionIdOf(first, attempt) ==
    first + attempt - 1

\* an allocation that hands the same id to every builder
AllocatedAfter_Reuses(first, attempts) ==
    first

\* the counter after a request_session that made `attempts` builders
AllocatedAfter(first, attempts) ==
    first + attempts

\* Sender::send on the registry's channel, by a Registry handle
Enqueue(type, arg) ==
    /\ requests < MaxRequests
    /\ requests' = requests + 1
    /\ reg_receiver' = Append(reg_receiver, [type |-> type, arg |-> arg, id |-> requests + 1])

\* a handle operation that connects the device itself
Registry_simulate_device_connection_Direct ==
    /\ \E init \in MockDeviceInit : Enqueue("SimulateDeviceConnection", init)
    /\ discoveries' = InsertFront(discoveries, SimulatedDiscovery)
    /\ UNCHANGED <<sessions, mocks, regpc, step_index, callbacks, delivered, session_count, pending, stepped, next_session_id, created>>
    /\ UNCHANGED <<varsValidate, varsLayers, varsSession, varsBuilder>>

Registry_supports_session ==
    /\ \E mode \in RequestModes : Enqueue("SupportsSession", mode)
    /\ UNCHANGED <<discoveries, sessions, mocks, regpc, step_index, callbacks, delivered, session_count, pending, stepped, next_session_id, created>>
    /\ UNCHANGED <<varsValidate, varsLayers, varsSession, varsBuilder>>

Registry_request_session ==
    /\ \E mode \in RequestModes : Enqueue("RequestSession", mode)
    /\ UNCHANGED <<discoveries, sessions, mocks, regpc, step_index, callbacks, delivered, session_count, pending, stepped, next_session_id, created>>
    /\ UNCHANGED <<varsValidate, varsLayers, varsSession, varsBuilder>>

Registry_simulate_device_connection ==
    /\ \E init \in MockDeviceInit : Enqueue("SimulateDeviceConnection", init)
    /\ UNCHANGED <<discoveries, sessions, mocks, regpc, step_index, callbacks, delivered, session_count, pending, stepped, next_session_id, created>>
    /\ UNCHANGED <<varsValidate, varsLayers, varsSession, varsBuilder>>

\* a session as the steppable list holds it (id is history: the order of
\* arrival on the list)
NewSession == [id |-> session_count + 1, running |-> TRUE]

MainThreadRegistry_register ==
    /\ regpc = "idle"
    /\ Len(discoveries) < MaxDiscoveries
    /\ \E d \in RegisteredDiscoveries : discoveries' = Append(discoveries, d)
    /\ UNCHANGED <<sessions, mocks, reg_receiver, regpc, step_index, callbacks, delivered, requests, session_count, pending, stepped, next_session_id, created>>
    /\ UNCHANGED <<varsValidate, varsLayers, varsSession, varsBuilder>>

MainThreadRegistry_register_mock ==
    /\ regpc = "idle"
    /\ Len(mocks) < MaxMocks
    /\ \E m \in MockDiscoveries : mocks' = Append(mocks, m)
    /\ UNCHANGED <<discoveries, sessions, reg_receiver, regpc, step_index, callbacks, delivered, requests, session_count, pending, stepped, next_session_id, created>>
    /\ UNCHANGED <<varsValidate, varsLayers, varsSession, varsBuilder>>

MainThreadRegistry_run_on_main_thread ==
    /\ regpc = "idle"
    /\ session_count < MaxSessions
    /\ sessions' = Append(sessions, NewSession)
    /\ session_count' = session_count + 1
    /\ UNCHANGED <<discoveries, mocks, reg_receiver, regpc, step_index, callbacks, delivered, requests, pending, stepped, next_session_id, created>>
    /\ UNCHANGED <<varsValidate, varsLayers, varsSession, varsBuilder>>

\* run_one_frame is entered
MainThreadRegistry_run_one_frame ==
    /\ regpc = "idle"
    /\ regpc' = "drain"
    /\ pending' = [i \in DOMAIN reg_receiver |-> reg_receiver[i].id]
    /\ stepped' = <<>>
    /\ UNCHANGED <<discoveries, sessions, mocks, reg_receiver, step_index, callbacks, delivered, requests, session_count, next_session_id, created>>
    /\ UNCHANGED <<varsValidate, varsLayers, varsSession, varsBuilder>>

\* try_recv returns the oldest message in the try_recv loop of run_one_frame
TryRecv(type) ==
    /\ regpc = "drain"
    /\ reg_receiver # <<>>
    /\ Head(reg_receiver).type = type
    /\ reg_receiver' = Tail(reg_receiver)

\* callback.callback(result); the history keeps the discovery list the
\* result was computed from and the request_session calls made for it
Callback(msg, result, tried) ==
    /\ callbacks' = Append(callbacks, [id |-> msg.id, type |-> msg.type, arg |-> msg.arg,
                                       result |-> result, tried |-> tried,
                                       discoveries |-> discoveries])
    /\ delivered' = Append(delivered, msg.id)

handle_SupportsSession ==
    /\ TryRecv("SupportsSession")
    /\ LET msg == Head(reg_receiver)
       IN  Callback(msg, supports_session(discoveries, msg.arg), <<>>)
    /\ UNCHANGED <<discoveries, sessions, mocks, regpc, step_index, requests, session_count, pending, stepped, next_session_id, created>>
    /\ UNCHANGED <<varsValidate, varsLayers, varsSession, varsBuilder>>

handle_RequestSession ==
    /\ TryRecv("RequestSession")
    /\ LET msg == Head(reg_receiver)
           got == request_session(discoveries, msg.arg)
           pushed == got.result.tag = "Ok" /\ got.result.value.op = "run_on_main_thread"
       IN  /\ Callback(msg, got.result, got.tried)
           /\ sessions' = IF pushed THEN Append(sessions, NewSession) ELSE sessions
           /\ session_count' = IF pushed THEN session_count + 1 ELSE session_count
           /\ next_session_id' = AllocatedAfter(next_session_id, Len(got.tried))
           /\ created' = IF got.result.tag = "Ok"
                         THEN Append(created, SessionIdOf(next_session_id, Len(got.tried)))
                         ELSE created
    /\ UNCHANGED <<discoveries, mocks, regpc, step_index, requests, pending, stepped>>
    /\ UNCHANGED <<varsValidate, varsLayers, varsSession, varsBuilder>>

handle_SimulateDeviceConnection ==
    /\ TryRecv("SimulateDeviceConnection")
    /\ \E fail_at \in 0..Len(mocks), answers \in [DOMAIN mocks -> MockResults] :
           LET msg == Head(reg_receiver)
               got == simulate_device_connection(mocks, discoveries, answers, fail_at)
           IN  /\ Callback(msg, got.result, <<>>)
               /\ discoveries' = got.discoveries
    /\ UNCHANGED <<sessions, mocks, regpc, step_index, requests, session_count, pending, stepped, next_session_id, created>>
    /\ UNCHANGED <<varsValidate, varsLayers, varsSession, varsBuilder>>

\* a try_recv loop that gives up with a message waiting
try_recv_Empty_Early ==
    /\ regpc = "drain"
    /\ regpc' = "step"
    /\ step_index' = 1
    /\ callbacks' = <<>>
    /\ pending' = <<>>
    /\ UNCHANGED <<discoveries, sessions, mocks, reg_receiver, delivered, requests, session_count, stepped, next_session_id, created>>
    /\ UNCHANGED <<varsValidate, varsLayers, varsSession, varsBuilder>>

\* try_recv finds the channel empty: the session loop starts
try_recv_Empty ==
    /\ regpc = "drain"
    /\ reg_receiver = <<>>
    /\ regpc' = "step"
    /\ step_index' = 1
    /\ callbacks' = <<>>
    /\ pending' = <<>>
    /\ UNCHANGED <<discoveries, sessions, mocks, reg_receiver, delivered, requests, session_count, stepped, next_session_id, created>>
    /\ UNCHANGED <<varsValidate, varsLayers, varsSession, varsBuilder>>

\* session.run_one_frame() on the next session of the list: the session may
\* stop in it
step_session ==
    /\ regpc = "step"
    /\ step_index <= Len(sessions)
    /\ \E still \in BOOLEAN :
           sessions' = [sessions EXCEPT ![step_index].running = @ /\ still]
    /\ stepped' = Append(stepped, sessions[step_index].id)
    /\ step_index' = step_index + 1
    /\ UNCHANGED <<discoveries, mocks, reg_receiver, regpc, callbacks, delivered, requests, session_count, pending, next_session_id, created>>
    /\ UNCHANGED <<varsValidate, varsLayers, varsSession, varsBuilder>>

\* the session loop is over: retain, and run_one_frame returns
MainThreadRegistry_retain ==
    /\ regpc = "step"
    /\ step_index > Len(sessions)
    /\ sessions' = Retain(sessions)
    /\ regpc' = "idle"
    /\ step_index' = 0
    /\ stepped' = <<>>
    /\ UNCHANGED <<discoveries, mocks, reg_receiver, callbacks, delivered, requests, session_count, pending, next_session_id, created>>
    /\ UNCHANGED <<varsValidate, varsLayers, varsSession, varsBuilder>>

\* MainThreadRegistry::new
InitRegistry ==
    /\ discoveries = <<>>
    /\ sessions = <<>>
    /\ mocks = <<>>
    /\ reg_receiver = <<>>
    /\ regpc = "idle"
    /\ step_index = 0
    /\ callbacks = <<>>
    /\ delivered = <<>>
    /\ requests = 0
    /\ session_count = 0
    /\ pending = <<>>
    /\ stepped = <<>>
    /\ next_session_id = 0
    /\ created = <<>>

\* ------------------------------------------------------------------------
\* SessionBuilder and the Session
\* ------------------------------------------------------------------------

\* SessionThread::new_session: the snapshot of what the device reports and of
\* the id the builder carried
new_session ==
    [floor_transform |-> "floor0", views |-> "views0", resolution |-> "resolution0",
     environment_blend_mode |-> "Opaque", initial_inputs |-> "inputs0",
     granted_features |-> "granted0", id |-> "id0"]

\* no Session was handed out
NoSession == [id |-> "none"]

\* the views and the floor transforms that frame-update events carry
Views == {"views0", "views1"}

FloorTransforms == {"floor0", "floor1"}

\* the errors a device factory returns
FactoryErrors == {"NoMatchingDevice", "UnsupportedFeature"}

\* the factory panicked: the worker unwinds and drops its end of the
\* acknowledgment channel
Panicked == [tag |-> "Panic"]

\* factory().and_then(|device| SessionThread::new(..)): the thread, the
\* factory's error, or the CommunicationError of SessionThread::new
BuildResults ==
    {Ok("thread"), Err("CommunicationError")} \cup {Err(e) : e \in FactoryErrors}

EmptyChannel == [tag |-> "Empty"]

BrokenChannel == [tag |-> "Broken"]

\* the caller holds a Session
HasSession == caller = "returned" /\ returned.tag = "Ok"

\* SessionThread::new has given the device its Quitter
QuitterSet == built.tag = "Ok"

\* SessionBuilder::spawn is called: the acknowledgment channel is made and the
\* worker started, or the channel cannot be made
SessionBuilder_spawn ==
    /\ execMode = "dedicated"
    /\ caller = "ready"
    /\ \E made \in BOOLEAN :
           IF made
           THEN /\ caller' = "blocked"
                /\ pc' = "spawned"
                /\ UNCHANGED returned
           ELSE /\ caller' = "returned"
                /\ returned' = Err("CommunicationError")
                /\ UNCHANGED pc
    /\ UNCHANGED <<built, ack, handle>>
    /\ UNCHANGED <<varsValidate, varsLayers, varsRegistry, execMode, receiver, frames, emitted,
                   frame_count, running, device, entry_count, contentVars>>

\* the worker runs the factory and SessionThread::new
worker_build ==
    /\ pc = "spawned"
    /\ \E outcome \in BuildResults \cup {Panicked} :
           /\ built' = outcome
           /\ ack' = IF outcome = Panicked THEN BrokenChannel ELSE ack
           /\ pc' = IF outcome = Panicked THEN "failed" ELSE "built"
    /\ UNCHANGED <<caller, returned, handle>>
    /\ UNCHANGED <<varsValidate, varsLayers, varsRegistry, execMode, receiver, frames, emitted,
                   frame_count, running, device, entry_count, contentVars>>

\* a worker that enters the run loop without acknowledging
worker_ack_RunsFirst ==
    /\ pc = "built"
    /\ pc' = IF built.tag = "Ok" THEN "recv" ELSE "failed"
    /\ ack' = IF built.tag = "Ok" THEN ack ELSE built
    /\ UNCHANGED <<caller, built, returned, handle>>
    /\ UNCHANGED <<varsValidate, varsLayers, varsRegistry, execMode, receiver, frames, emitted,
                   frame_count, running, device, entry_count, contentVars>>

\* a worker that reports every failure as a CommunicationError
worker_ack_HidesError ==
    /\ pc = "built"
    /\ IF built.tag = "Ok"
       THEN /\ ack' = Ok(new_session)
            /\ pc' = "recv"
       ELSE /\ ack' = Err("CommunicationError")
            /\ pc' = "failed"
    /\ UNCHANGED <<caller, built, returned, handle>>
    /\ UNCHANGED <<varsValidate, varsLayers, varsRegistry, execMode, receiver, frames, emitted,
                   frame_count, running, device, entry_count, contentVars>>

\* the match of the worker: on Ok it takes the snapshot, sends it and enters
\* run(); on Err it sends the error and ends
worker_ack ==
    /\ pc = "built"
    /\ IF built.tag = "Ok"
       THEN /\ ack' = Ok(new_session)
            /\ pc' = "recv"
       ELSE /\ ack' = built
            /\ pc' = "failed"
    /\ UNCHANGED <<caller, built, returned, handle>>
    /\ UNCHANGED <<varsValidate, varsLayers, varsRegistry, execMode, receiver, frames, emitted,
                   frame_count, running, device, entry_count, contentVars>>

\* ackr.recv().unwrap_or(Err(Error::CommunicationError)) returns
spawn_return ==
    /\ caller = "blocked"
    /\ ack # EmptyChannel
    /\ caller' = "returned"
    /\ returned' = IF ack = BrokenChannel THEN Err("CommunicationError") ELSE ack
    /\ handle' = IF ack.tag = "Ok" THEN ack.value ELSE handle
    /\ UNCHANGED <<built, ack>>
    /\ UNCHANGED <<varsValidate, varsLayers, varsRegistry, varsSession>>

\* a run_on_main_thread that puts the session on the list before it looks at
\* the result of the construction
SessionBuilder_run_on_main_thread_PushesFirst ==
    /\ execMode = "main"
    /\ caller = "ready"
    /\ \E outcome \in BuildResults :
           /\ built' = outcome
           /\ sessions' = Append(sessions, NewSession)
           /\ session_count' = session_count + 1
           /\ IF outcome.tag = "Ok"
              THEN /\ returned' = Ok(new_session)
                   /\ handle' = new_session
                   /\ pc' = "idle"
              ELSE /\ returned' = outcome
                   /\ pc' = "failed"
                   /\ UNCHANGED handle
    /\ caller' = "returned"
    /\ UNCHANGED ack
    /\ UNCHANGED <<discoveries, mocks, reg_receiver, regpc, step_index, callbacks, delivered, requests, pending, stepped, next_session_id, created>>
    /\ UNCHANGED <<varsValidate, varsLayers, execMode, receiver, frames, emitted,
                   frame_count, running, device, entry_count, contentVars>>

\* SessionBuilder::run_on_main_thread: factory()?, SessionThread::new(..)?,
\* new_session, sessions.push, Ok(session)
SessionBuilder_run_on_main_thread ==
    /\ execMode = "main"
    /\ caller = "ready"
    /\ \E outcome \in BuildResults :
           /\ built' = outcome
           /\ IF outcome.tag = "Ok"
              THEN /\ sessions' = Append(sessions, NewSession)
                   /\ session_count' = session_count + 1
                   /\ returned' = Ok(new_session)
                   /\ handle' = new_session
                   /\ pc' = "idle"
              ELSE /\ returned' = outcome
                   /\ pc' = "failed"
                   /\ UNCHANGED <<sessions, session_count, handle>>
    /\ caller' = "returned"
    /\ UNCHANGED ack
    /\ UNCHANGED <<discoveries, mocks, reg_receiver, regpc, step_index, callbacks, delivered, requests, pending, stepped, next_session_id, created>>
    /\ UNCHANGED <<varsValidate, varsLayers, execMode, receiver, frames, emitted,
                   frame_count, running, device, entry_count, contentVars>>

\* an apply_event that forgets the floor transform when the views change
apply_event_UpdateViews_ResetsFloor ==
    /\ HasSession
    /\ \E views \in Views :
           handle' = [handle EXCEPT !.views = views, !.floor_transform = "none"]
    /\ UNCHANGED <<caller, built, ack, returned>>
    /\ UNCHANGED <<varsValidate, varsLayers, varsRegistry, varsSession>>

\* Session::apply_event(FrameUpdateEvent::UpdateViews(views))
apply_event_UpdateViews ==
    /\ HasSession
    /\ \E views \in Views : handle' = [handle EXCEPT !.views = views]
    /\ UNCHANGED <<caller, built, ack, returned>>
    /\ UNCHANGED <<varsValidate, varsLayers, varsRegistry, varsSession>>

\* Session::apply_event(FrameUpdateEvent::UpdateFloorTransform(floor))
apply_event_UpdateFloorTransform ==
    /\ HasSession
    /\ \E floor \in FloorTransforms : handle' = [handle EXCEPT !.floor_transform = floor]
    /\ UNCHANGED <<caller, built, ack, returned>>
    /\ UNCHANGED <<varsValidate, varsLayers, varsRegistry, varsSession>>

\* the operations of the Session that send a message
SessionSend ==
    /\ HasSession
    /\ \/ start_render_loop
       \/ render_animation_frame
       \/ update_clip_planes
       \/ set_event_dest
       \/ end_session

\* the device, or whoever it gave its Quitter to, calls Quitter::quit
QuitterSend ==
    /\ QuitterSet
    /\ quit

\* ------------------------------------------------------------------------
\* Layer managers
\* ------------------------------------------------------------------------

\* the most layers created
MaxLayers == 2

LayerManagers == {"Surfman", "Gl"}

\* the context ids callers pass
ContextIds == {"context1", "context2"}

\* the layer ids callers pass to destroy_layer
LayerIds == 1..MaxLayers

\* no layer id
NoLayer == 0

\* what create_layer returns besides Ok: contexts.bindings or contexts.context
\* gave None, or (Surfman) the swap chain could not be created
CreateErrors(m) ==
    IF m = "Surfman" THEN {"NoMatchingDevice", "BackendSpecific"} ELSE {"NoMatchingDevice"}

\* LayerId::new(): an id never returned before
NewLayerId == next_layer_id

\* the number of times pair occurs in the list
RECURSIVE Count(_, _)
Count(list, pair) ==
    IF list = <<>>
    THEN 0
    ELSE (IF Head(list) = pair THEN 1 ELSE 0) + Count(Tail(list), pair)

\* Vec::retain(|&ids| ids != (context_id, layer_id))
RetainOthers(list, pair) ==
    SelectSeq(list, LAMBDA ids : ids # pair)

\* the record of a call
Call(op, context_id, layer_id, found, outcome) ==
    [op |-> op, context_id |-> context_id, layer_id |-> layer_id,
     found |-> found, result |-> outcome]

\* SurfmanLayerManager::create_layer: the early returns come before anything
\* is stored (the LayerId is taken once the bindings were found); on success
\* the pair is pushed before and after the insertion in the map
SurfmanLayerManager_create_layer ==
    /\ manager = "Surfman"
    /\ \E context_id \in ContextIds, bindings \in BOOLEAN, outcome \in {"Ok"} \cup CreateErrors("Surfman") :
           IF ~bindings
           THEN /\ last_call' = Call("create_layer", context_id, NoLayer, FALSE, "NoMatchingDevice")
                /\ UNCHANGED <<layer_ids, layer_map, next_layer_id, created_layers>>
           ELSE /\ next_layer_id <= MaxLayers
                /\ next_layer_id' = next_layer_id + 1
                /\ IF outcome = "Ok"
                   THEN /\ layer_ids' = Append(Append(layer_ids, <<context_id, NewLayerId>>),
                                               <<context_id, NewLayerId>>)
                        /\ layer_map' = layer_map \cup {NewLayerId}
                        /\ created_layers' = created_layers \cup {<<context_id, NewLayerId>>}
                        /\ last_call' = Call("create_layer", context_id, NewLayerId, TRUE, "Ok")
                   ELSE /\ last_call' = Call("create_layer", context_id, NoLayer, TRUE, outcome)
                        /\ UNCHANGED <<layer_ids, layer_map, created_layers>>
    /\ UNCHANGED manager
    /\ UNCHANGED <<varsValidate, varsSession, varsRegistry, varsBuilder>>

\* SurfmanLayerManager::destroy_layer: returns when the context is not found;
\* else drops the pair from the list and the layer id from the map
SurfmanLayerManager_destroy_layer ==
    /\ manager = "Surfman"
    /\ \E context_id \in ContextIds, layer_id \in LayerIds, context \in BOOLEAN :
           /\ last_call' = Call("destroy_layer", context_id, layer_id, context, "Ok")
           /\ IF context
              THEN /\ layer_ids' = RetainOthers(layer_ids, <<context_id, layer_id>>)
                   /\ layer_map' = layer_map \ {layer_id}
              ELSE UNCHANGED <<layer_ids, layer_map>>
    /\ UNCHANGED <<manager, next_layer_id, created_layers>>
    /\ UNCHANGED <<varsValidate, varsSession, varsRegistry, varsBuilder>>

\* GlLayerManager::create_layer
GlLayerManager_create_layer ==
    /\ manager = "Gl"
    /\ \E context_id \in ContextIds, bindings \in BOOLEAN :
           IF ~bindings
           THEN /\ last_call' = Call("create_layer", context_id, NoLayer, FALSE, "NoMatchingDevice")
                /\ UNCHANGED <<layer_ids, layer_map, next_layer_id, created_layers>>
           ELSE /\ next_layer_id <= MaxLayers
                /\ next_layer_id' = next_layer_id + 1
                /\ layer_map' = layer_map \cup {NewLayerId}
                /\ layer_ids' = Append(layer_ids, <<context_id, NewLayerId>>)
                /\ created_layers' = created_layers \cup {<<context_id, NewLayerId>>}
                /\ last_call' = Call("create_layer", context_id, NewLayerId, TRUE, "Ok")
    /\ UNCHANGED manager
    /\ UNCHANGED <<varsValidate, varsSession, varsRegistry, varsBuilder>>

\* GlLayerManager::destroy_layer: returns when the bindings are not found,
\* and when the map holds no layer of that id; else drops the pair
GlLayerManager_destroy_layer ==
    /\ manager = "Gl"
    /\ \E context_id \in ContextIds, layer_id \in LayerIds, bindings \in BOOLEAN :
           /\ last_call' = Call("destroy_layer", context_id, layer_id, bindings, "Ok")
           /\ IF bindings /\ layer_id \in layer_map
              THEN /\ layer_map' = layer_map \ {layer_id}
                   /\ layer_ids' = RetainOthers(layer_ids, <<context_id, layer_id>>)
              ELSE UNCHANGED <<layer_ids, layer_map>>
    /\ UNCHANGED <<manager, next_layer_id, created_layers>>
    /\ UNCHANGED <<varsValidate, varsSession, varsRegistry, varsBuilder>>

RECURSIVE begin_frame(_, _)
\* begin_frame of either manager: the sub images of the layers in order, or
\* NoMatchingDevice at the first layer the map does not hold
begin_frame(map, list) ==
    IF list = <<>>
    THEN "Ok"
    ELSE IF Head(list)[2] \notin map
         THEN "NoMatchingDevice"
         ELSE begin_frame(map, Tail(list))

\* begin_frame is called with what layers() returns
LayerManager_begin_frame ==
    /\ last_call' = Call("begin_frame", NoValue, NoLayer, TRUE, begin_frame(layer_map, layer_ids))
    /\ UNCHANGED <<manager, layer_ids, layer_map, next_layer_id, created_layers>>
    /\ UNCHANGED <<varsValidate, varsSession, varsRegistry, varsBuilder>>

\* no layer manager in use
IdleLayers ==
    /\ manager = "Gl"
    /\ layer_ids = <<>>
    /\ layer_map = {}
    /\ next_layer_id = 1
    /\ created_layers = {}
    /\ last_call = Call("new", NoValue, NoLayer, TRUE, "Ok")

\* ------------------------------------------------------------------------
\* Specifications
\* ------------------------------------------------------------------------

\* SessionThread::new, then SessionBuilder::spawn or run_on_main_thread
InitSession ==
    /\ execMode \in {"dedicated", "main"}
    /\ receiver = <<>>
    /\ frame_count = 0
    /\ running = TRUE
    /\ device = [event_dest |-> NoValue, clip_planes |-> NoValue,
                 render_calls |-> 0, wait_calls |-> 0, quit_calls |-> 0,
                 exhausted |-> FALSE, calls |-> <<>>]
    /\ pc = IF execMode = "dedicated" THEN "recv" ELSE "idle"
    /\ entry_count = 0
    /\ frames = <<>>
    /\ emitted = [start |-> 0, raf |-> 0]
    /\ startSent = 0
    /\ rafSent = 0
    /\ credit = 0
    /\ disciplined = TRUE
    /\ session_dropped = FALSE
    /\ caller = "returned"
    /\ built = Ok("thread")
    /\ ack = Ok(new_session)
    /\ returned = Ok(new_session)
    /\ handle = new_session

\* no call of validate is in progress
IdleValidate ==
    /\ vMode = "Inline"
    /\ vRequired = <<>>
    /\ vOptional = <<>>
    /\ vSupported = {}
    /\ vResult = NoResult

Init == IdleValidate /\ InitSession /\ InitRegistry /\ IdleLayers

Next ==
    \/ ContentSend
    \/ recv_frame
    \/ ThreadStep
    \/ run_one_frame
    \/ retain

Spec == Init /\ [][Next]_vars

\* the same, with a content side that may drop its Session at any time
NextWithDrop ==
    \/ ContentSend
    \/ drop_session
    \/ recv_frame
    \/ ThreadStep
    \/ run_one_frame
    \/ retain

SpecWithDrop == Init /\ [][NextWithDrop]_vars

\* every device call returns and the thread that owns the SessionThread keeps
\* running; the registry keeps ticking
FairSpec ==
    /\ Spec
    /\ WF_vars(ThreadStep)
    /\ WF_vars(run_one_frame)

\* validate is called on one input
InitValidate ==
    /\ vMode \in SessionMode
    /\ vRequired \in SeqsUpTo(Features, MaxRequired)
    /\ vOptional \in SeqsUpTo(Features, MaxOptional)
    /\ vSupported \in SUBSET Features
    /\ vResult = NoResult
    /\ InitSession
    /\ IdleLayers
    /\ execMode = "dedicated"
    /\ InitRegistry

CallValidate ==
    /\ vResult = NoResult
    /\ vResult' = validate(vRequired, vOptional, vMode, vSupported)
    /\ UNCHANGED <<vMode, vRequired, vOptional, vSupported, varsSession, varsRegistry, varsBuilder, varsLayers>>

NextValidate == CallValidate

SpecValidate == InitValidate /\ [][NextValidate]_vars

\* a registry just made, with no call of validate in progress and one
\* session that nothing is sent to
InitForRegistry ==
    /\ IdleValidate
    /\ IdleLayers
    /\ InitSession
    /\ execMode = "dedicated"
    /\ InitRegistry

NextRegistry ==
    \/ Registry_supports_session
    \/ Registry_request_session
    \/ Registry_simulate_device_connection
    \/ MainThreadRegistry_register
    \/ MainThreadRegistry_register_mock
    \/ MainThreadRegistry_run_on_main_thread
    \/ MainThreadRegistry_run_one_frame
    \/ handle_SupportsSession
    \/ handle_RequestSession
    \/ handle_SimulateDeviceConnection
    \/ try_recv_Empty
    \/ step_session
    \/ MainThreadRegistry_retain

SpecRegistry == InitForRegistry /\ [][NextRegistry]_vars

\* a SessionBuilder whose spawn or run_on_main_thread is about to be called,
\* with a steppable list that is empty or holds one session
InitBuilder ==
    /\ IdleValidate
    /\ IdleLayers
    /\ execMode \in {"dedicated", "main"}
    /\ receiver = <<>>
    /\ frame_count = 0
    /\ running = TRUE
    /\ device = [event_dest |-> NoValue, clip_planes |-> NoValue,
                 render_calls |-> 0, wait_calls |-> 0, quit_calls |-> 0,
                 exhausted |-> FALSE, calls |-> <<>>]
    /\ pc = "unspawned"
    /\ entry_count = 0
    /\ frames = <<>>
    /\ emitted = [start |-> 0, raf |-> 0]
    /\ startSent = 0
    /\ rafSent = 0
    /\ credit = 0
    /\ disciplined = TRUE
    /\ session_dropped = FALSE
    /\ discoveries = <<>>
    /\ mocks = <<>>
    /\ reg_receiver = <<>>
    /\ regpc = "idle"
    /\ step_index = 0
    /\ callbacks = <<>>
    /\ delivered = <<>>
    /\ requests = 0
    /\ pending = <<>>
    /\ stepped = <<>>
    /\ next_session_id = 0
    /\ created = <<>>
    /\ session_count \in 0..MaxSessions
    /\ sessions = [i \in 1..session_count |-> [id |-> i, running |-> TRUE]]
    /\ caller = "ready"
    /\ built = NoResult
    /\ ack = EmptyChannel
    /\ returned = NoResult
    /\ handle = NoSession

NextBuilder ==
    \/ SessionBuilder_spawn
    \/ worker_build
    \/ worker_ack
    \/ spawn_return
    \/ SessionBuilder_run_on_main_thread
    \/ SessionSend
    \/ QuitterSend
    \/ recv_frame
    \/ ThreadStep
    \/ run_one_frame
    \/ retain

SpecBuilder == InitBuilder /\ [][NextBuilder]_vars

\* SurfmanLayerManager::new or GlLayerManager::new: no layer
InitLayers ==
    /\ IdleValidate
    /\ InitSession
    /\ execMode = "dedicated"
    /\ InitRegistry
    /\ manager \in LayerManagers
    /\ layer_ids = <<>>
    /\ layer_map = {}
    /\ next_layer_id = 1
    /\ created_layers = {}
    /\ last_call = Call("new", NoValue, NoLayer, TRUE, "Ok")

NextLayers ==
    \/ SurfmanLayerManager_create_layer
    \/ SurfmanLayerManager_destroy_layer
    \/ GlLayerManager_create_layer
    \/ GlLayerManager_destroy_layer
    \/ LayerManager_begin_frame

SpecLayers == InitLayers /\ [][NextLayers]_vars

\* the session with the frame-update events applied to its Session
NextWithEvents ==
    \/ ContentSend
    \/ recv_frame
    \/ ThreadStep
    \/ run_one_frame
    \/ retain
    \/ apply_event_UpdateViews
    \/ apply_event_UpdateFloorTransform

SpecWithEvents == Init /\ [][NextWithEvents]_vars

\* ------------------------------------------------------------------------
\* Claims about SessionInit::validate
\* ------------------------------------------------------------------------

\* the features the specification grants by default for a mode
DefaultFor(mode) == IF mode = "Inline" THEN {"viewer"} ELSE {"viewer", "local"}

\* position i of the required list is a feature that is neither supported
\* nor granted by default
Offending(i) ==
    /\ vRequired[i] \notin vSupported
    /\ vRequired[i] \notin DefaultFor(vMode)

\* C1: validate returns Err(UnsupportedFeature) if and only if some required
\* feature is not in supported and is neither "viewer" nor ("local" with a
\* mode other than Inline); in every other case it returns Ok.
C1_ErrIffOffendingRequired ==
    vResult # NoResult =>
        /\ vResult.tag \in {"Ok", "Err"}
        /\ (vResult.tag = "Err") <=> (\E i \in DOMAIN vRequired : Offending(i))
        /\ vResult.tag = "Err" => vResult.error = "UnsupportedFeature"

\* the case of the specification's example: Inline, required = ["local"],
\* supported = [] fails
C1_Witness ==
    /\ vMode = "Inline"
    /\ vRequired = <<"local">>
    /\ vSupported = {}
    /\ vResult # NoResult
    /\ vResult.tag = "Err"

IsGrantedOptional(f) == f \in DefaultFor(vMode) \/ f \in vSupported

\* C2: when validate succeeds the granted list is the required list verbatim
\* followed by the optional features, in input order, that are default-granted
\* or supported, and nothing else.
C2_GrantedList ==
    (vResult # NoResult /\ vResult.tag = "Ok") =>
        vResult.granted = vRequired \o SelectSeq(vOptional, IsGrantedOptional)

\* the specification's example (ImmersiveVR, required = ["local-floor"],
\* optional = ["bounded-floor"], supported = ["local-floor"]), and a call that
\* keeps a duplicate and grants one optional feature out of two
C2_Witness ==
    /\ vResult # NoResult
    /\ vResult.tag = "Ok"
    /\ \/ /\ vMode = "ImmersiveVR"
          /\ vRequired = <<"local-floor">>
          /\ vOptional = <<"bounded-floor">>
          /\ vSupported = {"local-floor"}
          /\ vResult.granted = <<"local-floor">>
       \/ /\ vRequired = <<"viewer", "viewer">>
          /\ vOptional = <<"bounded-floor", "local">>
          /\ vResult.granted = <<"viewer", "viewer", "local">>

\* C3: when validate fails, the feature named is the first offending feature
\* of the required list; optional features never cause a failure.
C3_FirstOffending ==
    vResult # NoResult =>
        /\ vResult.tag = "Err" =>
              \E i \in DOMAIN vRequired :
                  /\ Offending(i)
                  /\ \A j \in 1..(i - 1) : ~Offending(j)
                  /\ vResult.feature = vRequired[i]
        /\ (\A i \in DOMAIN vRequired : ~Offending(i)) => vResult.tag = "Ok"

\* two different offending features, the first one reported, with an
\* unsupported optional feature besides
C3_Witness ==
    /\ vRequired = <<"bounded-floor", "local-floor">>
    /\ vSupported = {}
    /\ vResult # NoResult
    /\ vResult.tag = "Err"
    /\ vResult.feature = "bounded-floor"

\* ------------------------------------------------------------------------
\* Claims about SessionThread
\* ------------------------------------------------------------------------

\* in this step the thread takes a message of the given type off the control
\* channel (a send only ever appends)
Handles(type) ==
    /\ receiver # <<>>
    /\ Head(receiver).type = type
    /\ receiver' = Tail(receiver)

\* in this step the thread takes some message off the control channel
HandlesAny == receiver # <<>> /\ receiver' = Tail(receiver)

\* C4: frame_count increases by exactly one each time a RenderAnimationFrame
\* message is handled, and no other step (the handling of any other message
\* kind included) changes it.
C4_FrameCountStep ==
    [][IF Handles("RenderAnimationFrame")
       THEN frame_count' = frame_count + 1
       ELSE frame_count' = frame_count]_vars

\* two RenderAnimationFrame messages and one of every other kind were handled
C4_Witness ==
    /\ frame_count = 2
    /\ device.wait_calls = 3
    /\ device.clip_planes # NoValue
    /\ device.event_dest # NoValue
    /\ device.quit_calls = 1

\* C5: the Frame of one RenderAnimationFrame is on the frame channel before
\* the next RenderAnimationFrame is processed, and never before the
\* RenderAnimationFrame that produces it was handled: the Frames sent for
\* RenderAnimationFrame messages never outnumber the messages handled, and
\* equal them whenever the next one is taken.
C5_FrameBeforeNextRAF ==
    /\ [](emitted.raf <= frame_count)
    /\ [][Handles("RenderAnimationFrame") => emitted.raf = frame_count]_vars

\* a second RenderAnimationFrame is being handled, after the Frame of the first
C5_Witness ==
    /\ pc = "wait_raf"
    /\ frame_count = 2
    /\ emitted.raf = 1

\* a Quit is waiting in the control channel
QuitQueued == \E i \in DOMAIN receiver : receiver[i].type = "Quit"

\* C6: once a Quit is in the control channel, the loop of the SessionThread
\* eventually terminates, in both execution modes and whatever is queued
\* before the Quit (every device call returns; the registry keeps ticking).
C6_QuitTerminates == QuitQueued ~> ~running

\* a stepped session that handled a Quit queued behind two frame requests
C6_Witness ==
    /\ execMode = "main"
    /\ ~running
    /\ device.quit_calls = 1
    /\ frame_count = 2

\* C7: once the loop has terminated, no Frame is sent and no message is
\* handled any more: running stays false, no message leaves the control
\* channel, and the Frames sent, the frame count and the device stay as they
\* are, also when run_one_frame is called again.
C7_NothingAfterTermination ==
    [][~running =>
          /\ ~running'
          /\ ~HandlesAny
          /\ emitted' = emitted
          /\ Len(frames') <= Len(frames)
          /\ frame_count' = frame_count
          /\ device' = device]_vars

\* run_one_frame was called again on a terminated session with messages queued
C7_Witness ==
    /\ execMode = "main"
    /\ pc = "loop"
    /\ ~running
    /\ receiver # <<>>

\* C8, as claimed: at most one Frame is in flight whatever the content side
\* sends.
C8_AtMostOneInFlight == Len(frames) <= 1

\* C8, amended: at most one Frame is in flight as long as the content side
\* follows the frame protocol (one StartRenderLoop, and a
\* RenderAnimationFrame only in answer to a consumed Frame).
C8_AtMostOneInFlightWhenDisciplined == disciplined => Len(frames) <= 1

\* the frame pump in its steady state: the Frame of the second
\* RenderAnimationFrame is in flight
C8_Witness ==
    /\ disciplined
    /\ frame_count = 2
    /\ Len(frames) = 1
    /\ emitted = [start |-> 1, raf |-> 2]

\* C9: one call of run_one_frame advances frame_count by at most 1 (the
\* count only changes inside a call, and entry_count is its value at the
\* start of the latest call).
C9_AtMostOneFramePerCall ==
    execMode = "main" => frame_count - entry_count \in {0, 1}

\* a call has returned after one frame although another RenderAnimationFrame
\* was queued
C9_Witness ==
    /\ execMode = "main"
    /\ pc = "idle"
    /\ running
    /\ frame_count = entry_count + 1
    /\ receiver # <<>>
    /\ Head(receiver).type = "RenderAnimationFrame"

\* a call of run_one_frame is in progress
InCall == execMode = "main" /\ pc \in {"loop", "wait_start", "wait_raf"}

\* C10, as claimed: every call of run_one_frame returns, also when the content
\* side keeps sending messages.
C10_CallReturns == InCall ~> ~InCall

\* C10, amended: every call of run_one_frame returns provided the content
\* side eventually stops sending.
C10_CallReturnsWhenSendsStop ==
    (<>[][~ContentSend]_vars) => (InCall ~> ~InCall)

\* a call handled a message, timed out on the empty channel and returned
C10_Witness ==
    /\ execMode = "main"
    /\ pc = "idle"
    /\ running
    /\ frame_count = 0
    /\ device.clip_planes # NoValue
    /\ receiver = <<>>

\* the thread is inside handle_msg, in the device's wait_for_animation_frame
InWait == pc \in {"wait_start", "wait_raf"}

\* C11: messages are handled one at a time in the order they were sent: the
\* control channel only grows at its end and shrinks at its head, no message
\* is taken while another is being handled, every effect on the device is that
\* of the oldest message, and a Quit takes effect only as the oldest message,
\* between two handlings.
C11_InOrderOneAtATime ==
    [][/\ \/ receiver' = receiver
          \/ receiver # <<>> /\ receiver' = Tail(receiver)
          \/ /\ Len(receiver') = Len(receiver) + 1
             /\ SubSeq(receiver', 1, Len(receiver)) = receiver
       /\ HandlesAny => ~InWait
       /\ device'.quit_calls # device.quit_calls => Handles("Quit") /\ ~InWait
       /\ device'.event_dest # device.event_dest => Handles("SetEventDest")
       /\ device'.clip_planes # device.clip_planes => Handles("UpdateClipPlanes")
       /\ device'.render_calls # device.render_calls => Handles("RenderAnimationFrame")
       /\ device'.wait_calls # device.wait_calls =>
              Handles("RenderAnimationFrame") \/ Handles("StartRenderLoop")
       /\ (running /\ ~running') => InWait \/ Handles("Quit")]_vars

\* a Quit sent while a RenderAnimationFrame was being handled took effect after
\* the Frame was sent; the message sent after the Quit was never handled
C11_Witness ==
    /\ pc = "exited"
    /\ device.quit_calls = 1
    /\ emitted.raf = 1
    /\ receiver # <<>>

\* C12: when wait_for_animation_frame returns None, no Frame is sent for the
\* message being handled and the loop terminates (no channel of the
\* SessionThread carries an error).
C12_ExhaustionStopsQuietly ==
    /\ [](device.exhausted => ~running)
    /\ [][(~device.exhausted /\ device'.exhausted) =>
              /\ InWait
              /\ frames' = frames
              /\ emitted' = emitted
              /\ ~running'
              /\ pc' = IF execMode = "dedicated" THEN "exited" ELSE "loop"]_vars

\* a stepped session whose device gave out while RenderAnimationFrame was
\* handled, after the Frame of StartRenderLoop
C12_Witness ==
    /\ execMode = "main"
    /\ device.exhausted
    /\ frame_count = 1
    /\ emitted = [start |-> 1, raf |-> 0]
    /\ pc = "idle"

\* ------------------------------------------------------------------------
\* Claims about the registry
\* ------------------------------------------------------------------------

\* the callbacks of the try_recv loop in progress that answered a message of
\* this type
CallbacksOf(type) == {k \in DOMAIN callbacks : callbacks[k].type = type}

\* discovery i of the list seen by callback entry e serves the mode asked for
Serves(e, i) == DiscoveryRequest(e.discoveries[i], e.arg) \in BuilderOps

\* C13: RequestSession calls request_session on the discoveries in list order
\* from the first, goes on after each failure, stops at the first success and
\* hands its Session to the callback; no later discovery is called.
C13_FirstSuccessInListOrder ==
    \A k \in CallbacksOf("RequestSession") :
        LET e == callbacks[k]
            n == Len(e.tried)
        IN  /\ n <= Len(e.discoveries)
            /\ \A j \in 1..n :
                   /\ e.tried[j].index = j
                   /\ e.tried[j].discovery = e.discoveries[j]
                   /\ e.tried[j].outcome = DiscoveryRequest(e.discoveries[j], e.arg)
            /\ \A j \in 1..(n - 1) : ~Serves(e, j)
            /\ IF \E i \in DOMAIN e.discoveries : Serves(e, i)
               THEN /\ n >= 1
                    /\ Serves(e, n)
                    /\ e.result = Ok([by |-> e.discoveries[n], index |-> n,
                                      op |-> e.tried[n].outcome])
               ELSE /\ n = Len(e.discoveries)
                    /\ e.result.tag = "Err"

\* an Inline request met a list whose first discovery failed and whose second
\* one spawned the session
C13_Witness ==
    \E k \in CallbacksOf("RequestSession") :
        /\ callbacks[k].arg = "Inline"
        /\ Len(callbacks[k].tried) = 2
        /\ callbacks[k].result.tag = "Ok"
        /\ callbacks[k].result.value.index = 2

\* C14: the callback of RequestSession gets NoMatchingDevice exactly when every
\* registered discovery (possibly none) failed its request_session, and no
\* other error is ever delivered.
C14_NoMatchingDeviceIffAllFailed ==
    \A k \in CallbacksOf("RequestSession") :
        LET e == callbacks[k]
        IN  /\ e.result = Err("NoMatchingDevice") <=>
                   \A i \in DOMAIN e.discoveries : ~Serves(e, i)
            /\ e.result.tag = "Err" => e.result.error = "NoMatchingDevice"

\* every discovery was tried, one of them failed with UnsupportedFeature, and
\* the callback got NoMatchingDevice
C14_Witness ==
    \E k \in CallbacksOf("RequestSession") :
        /\ callbacks[k].result = Err("NoMatchingDevice")
        /\ Len(callbacks[k].tried) = 2
        /\ \E j \in DOMAIN callbacks[k].tried :
               callbacks[k].tried[j].outcome = "UnsupportedFeature"

\* a request_session call made for callback entry e failed with
\* UnsupportedFeature
Refused(e) == \E j \in DOMAIN e.tried : e.tried[j].outcome = "UnsupportedFeature"

\* C15 as stated: an UnsupportedFeature failure met while a session request is
\* served is the result the request's callback gets.
C15_RefusalDelivered ==
    \A k \in CallbacksOf("RequestSession") :
        Refused(callbacks[k]) => callbacks[k].result = Err("UnsupportedFeature")

\* C15: an UnsupportedFeature failure met while a session request is served
\* goes no further than the registry's loop, which tries the next discovery;
\* the callback, invoked in the handling of the message, gets the Session of a
\* later discovery or NoMatchingDevice, never UnsupportedFeature.
C15_RefusalSwallowed ==
    /\ \A k \in CallbacksOf("RequestSession") :
           LET e == callbacks[k]
           IN  Refused(e) =>
                   \/ e.result = Err("NoMatchingDevice")
                   \/ /\ e.result.tag = "Ok"
                      /\ \E j \in 1..(e.result.value.index - 1) :
                             e.tried[j].outcome = "UnsupportedFeature"
    /\ \A k \in DOMAIN callbacks : callbacks[k].result # Err("UnsupportedFeature")

\* a discovery refused the features of an ImmersiveVR request and the callback
\* got the Session of the discovery after it
C15_Witness ==
    \E k \in CallbacksOf("RequestSession") :
        /\ callbacks[k].result.tag = "Ok"
        /\ callbacks[k].result.value.index = 2
        /\ callbacks[k].tried[1].outcome = "UnsupportedFeature"
        /\ callbacks[k].result.value.by = "headset"

\* the step invokes a callback for a message of this type
Answers(type) ==
    /\ Len(callbacks') = Len(callbacks) + 1
    /\ callbacks'[Len(callbacks')].type = type

\* C16: the callback of SupportsSession gets success exactly when some
\* registered discovery reports supports_session(mode), NoMatchingDevice
\* otherwise, and the handling changes neither the discovery list nor the
\* session list.
C16_SupportsIffSomeDiscovery ==
    /\ [](\A k \in CallbacksOf("SupportsSession") :
              LET e == callbacks[k]
              IN  e.result =
                      IF \E i \in DOMAIN e.discoveries :
                             DiscoverySupports(e.discoveries[i], e.arg)
                      THEN Ok("unit")
                      ELSE Err("NoMatchingDevice"))
    /\ [][Answers("SupportsSession") =>
              /\ discoveries' = discoveries
              /\ sessions' = sessions
              /\ callbacks'[Len(callbacks')].discoveries = discoveries]_vars

\* only the second discovery of the list supports the mode asked about
C16_Witness ==
    \E k \in CallbacksOf("SupportsSession") :
        /\ callbacks[k].result = Ok("unit")
        /\ Len(callbacks[k].discoveries) = 2
        /\ ~DiscoverySupports(callbacks[k].discoveries[1], callbacks[k].arg)

\* C17: a successful SimulateDeviceConnection puts the mock's discovery in
\* front of the list and leaves the others in their order; it stays in front,
\* and a RequestSession handled with it in front is served by it, no other
\* discovery being tried.
C17_MockFirst ==
    /\ [][/\ (Answers("SimulateDeviceConnection")
                  /\ callbacks'[Len(callbacks')].result.tag = "Ok") =>
              /\ discoveries'[1] = SimulatedDiscovery
              /\ Tail(discoveries') = discoveries
          /\ (discoveries # <<>> /\ discoveries[1] = SimulatedDiscovery) =>
              discoveries'[1] = SimulatedDiscovery]_vars
    /\ [](\A k \in CallbacksOf("RequestSession") :
              LET e == callbacks[k]
              IN  (e.discoveries # <<>> /\ e.discoveries[1] = SimulatedDiscovery) =>
                      /\ Len(e.tried) = 1
                      /\ e.result.tag = "Ok"
                      /\ e.result.value.by = SimulatedDiscovery
                      /\ e.result.value.index = 1)

\* a device was connected in front of two registered discoveries and served
\* the request that followed
C17_Witness ==
    \E k \in CallbacksOf("RequestSession") :
        /\ Len(callbacks[k].discoveries) = 3
        /\ callbacks[k].discoveries[1] = SimulatedDiscovery
        /\ callbacks[k].result.tag = "Ok"

\* C18: callbacks are invoked only in the try_recv loop of run_one_frame, once
\* per request and in arrival order; when the loop ends every request that was
\* waiting when it began has been answered, in order, and sessions are stepped
\* only after that.
C18_DrainedInOrderBeforeStepping ==
    /\ [](/\ \A i \in DOMAIN delivered : delivered[i] = i
          /\ \A i \in DOMAIN reg_receiver : reg_receiver[i].id = Len(delivered) + i
          /\ Len(delivered) + Len(reg_receiver) = requests
          /\ stepped # <<>> => regpc = "step")
    /\ [][/\ delivered' # delivered =>
              /\ regpc = "drain" /\ regpc' = "drain"
              /\ Len(callbacks') = Len(callbacks) + 1
              /\ delivered' = Append(delivered, callbacks'[Len(callbacks')].id)
          /\ (regpc = "drain" /\ regpc' # "drain") =>
              /\ regpc' = "step"
              /\ Len(pending) <= Len(callbacks)
              /\ \A i \in DOMAIN pending : callbacks[i].id = pending[i]
          /\ stepped' # stepped => regpc = "step"]_vars

\* two requests were waiting when the tick began and both callbacks have been
\* invoked
C18_Witness ==
    /\ regpc = "drain"
    /\ Len(pending) = 2
    /\ Len(callbacks) = 2
    /\ reg_receiver = <<>>

\* C19: when the session loop of a tick ends every session of the list has
\* been stepped exactly once, in list order; retain keeps the running ones in
\* their order and drops the others, so that between ticks no session of the
\* list has running = false.
C19_SteppedOnceThenRetained ==
    /\ [](/\ regpc = "idle" => \A i \in DOMAIN sessions : sessions[i].running
          /\ \A i, j \in DOMAIN sessions : sessions[i].id = sessions[j].id => i = j)
    /\ [][(regpc = "step" /\ regpc' = "idle") =>
              /\ stepped = [i \in DOMAIN sessions |-> sessions[i].id]
              /\ \A i \in DOMAIN sessions' : sessions'[i].running
              /\ \A i \in DOMAIN sessions :
                     sessions[i].running <=>
                         \E j \in DOMAIN sessions' : sessions'[j] = sessions[i]
              /\ \A i, j \in DOMAIN sessions' :
                     i < j => sessions'[i].id < sessions'[j].id]_vars

\* the session loop has ended: the first session of the list stopped in its
\* step, the second did not
C19_Witness ==
    /\ regpc = "step"
    /\ Len(sessions) = 2
    /\ stepped = <<sessions[1].id, sessions[2].id>>
    /\ ~sessions[1].running
    /\ sessions[2].running

\* the step is one of the operations of the thread that owns the registry
OwnerOperation ==
    \/ MainThreadRegistry_register
    \/ MainThreadRegistry_register_mock
    \/ MainThreadRegistry_run_on_main_thread
    \/ regpc \in {"drain", "step"}

\* C20: an operation of a Registry handle appends one message to the channel
\* and leaves the three lists alone; the lists change only in register,
\* register_mock, run_on_main_thread and run_one_frame.
C20_HandlesOnlyEnqueue ==
    [][/\ requests' # requests =>
           /\ Len(reg_receiver') = Len(reg_receiver) + 1
           /\ SubSeq(reg_receiver', 1, Len(reg_receiver)) = reg_receiver
           /\ UNCHANGED <<discoveries, sessions, mocks, regpc, callbacks, delivered, next_session_id, created>>
       /\ <<discoveries, sessions, mocks>>' # <<discoveries, sessions, mocks>> =>
           /\ OwnerOperation
           /\ requests' = requests]_vars

\* a device connection and a session request are waiting, and the lists are
\* as the owner thread left them
C20_Witness ==
    /\ regpc = "idle"
    /\ Len(reg_receiver) = 2
    /\ reg_receiver[1].type = "SimulateDeviceConnection"
    /\ reg_receiver[2].type = "RequestSession"
    /\ discoveries = <<"headset">>
    /\ mocks = <<"mock">>
    /\ sessions = <<>>

\* ------------------------------------------------------------------------
\* Further claims about validate
\* ------------------------------------------------------------------------

\* the names in a list of features
Names(list) == {list[i] : i \in DOMAIN list}

\* the names asked for, required or optional
Requested == Names(vRequired) \cup Names(vOptional)

\* C26 as stated: the granted list is never a superset of the requested
\* features together with the default-granted names of the mode.
C26_NeverSuperset ==
    (vResult # NoResult /\ vResult.tag = "Ok") =>
        ~((Requested \cup DefaultFor(vMode)) \subseteq Names(vResult.granted))

\* C26: the granted list holds requested names only, so it is never more than
\* the requested features together with the default-granted names of the
\* mode; it can be exactly that set.
C26_GrantedWithinRequested ==
    (vResult # NoResult /\ vResult.tag = "Ok") =>
        /\ Names(vResult.granted) \subseteq Requested
        /\ Names(vResult.granted) \subseteq Requested \cup DefaultFor(vMode)

\* an ImmersiveVR call that asked for both default names and one supported
\* feature and was granted all three: the granted names are the requested
\* ones together with the defaults
C26_Witness ==
    /\ vResult # NoResult
    /\ vResult.tag = "Ok"
    /\ vMode = "ImmersiveVR"
    /\ Requested = {"viewer", "local", "local-floor"}
    /\ Names(vResult.granted) = Requested \cup DefaultFor(vMode)

\* ------------------------------------------------------------------------
\* Further claims about the SessionThread
\* ------------------------------------------------------------------------

\* C27: the loop stops only by handling a Quit or by the device giving out:
\* running is false, and a dedicated thread has left run(), only after one of
\* the two; a drop of the Session changes nothing on the thread's side, and the
\* handling of any other message leaves the loop running.
C27_StopsOnlyByQuitOrExhaustion ==
    /\ [](/\ ~running => device.quit_calls >= 1 \/ device.exhausted
          /\ pc \in {"exited", "dropped"} => ~running)
    /\ [][/\ (running /\ ~running') =>
              \/ Handles("Quit") /\ device'.quit_calls = device.quit_calls + 1
              \/ InWait /\ device'.exhausted
          /\ session_dropped' # session_dropped =>
              UNCHANGED <<receiver, threadVars, frames>>
          /\ (HandlesAny /\ ~Handles("Quit")) => running']_vars

\* the Session was dropped, every message it had sent was handled, and the
\* dedicated thread is waiting for the next one
C27_Witness ==
    /\ session_dropped
    /\ execMode = "dedicated"
    /\ pc = "recv"
    /\ running
    /\ receiver = <<>>
    /\ device.clip_planes # NoValue
    /\ emitted.start = 1

\* C28: the handling of RenderAnimationFrame increments frame_count, calls
\* render_animation_frame once and then wait_for_animation_frame once; the
\* Frame is sent when the wait returns, and no message is taken and no other
\* device call made in between.
C28_RenderThenWaitThenSend ==
    /\ [](pc = "wait_raf" =>
              device.calls = <<"render_animation_frame", "wait_for_animation_frame">>)
    /\ [][/\ Handles("RenderAnimationFrame") =>
              /\ frame_count' = frame_count + 1
              /\ device'.render_calls = device.render_calls + 1
              /\ device'.wait_calls = device.wait_calls + 1
              /\ device'.calls = <<"render_animation_frame", "wait_for_animation_frame">>
              /\ pc' = "wait_raf"
              /\ frames' = frames
          /\ pc = "wait_raf" =>
              /\ ~HandlesAny
              /\ device'.render_calls = device.render_calls
              /\ device'.wait_calls = device.wait_calls
              /\ frame_count' = frame_count
              /\ pc' # "wait_raf" =>
                     \/ frames' = Append(frames, device.wait_calls) /\ ~device'.exhausted
                     \/ frames' = frames /\ device'.exhausted]_vars

\* the device has rendered once and is waiting for the frame after it, with a
\* message already waiting on the control channel
C28_Witness ==
    /\ pc = "wait_raf"
    /\ device.render_calls = 1
    /\ device.wait_calls = 2
    /\ receiver # <<>>

\* C29: the handling of Quit calls the device's quit once and stops the loop;
\* the device's quit is called at most once in all, and whenever it was called
\* the loop is stopped.
C29_QuitOnceThenStop ==
    /\ [](/\ device.quit_calls <= 1
          /\ device.quit_calls = 1 => ~running)
    /\ [][/\ Handles("Quit") =>
              /\ device'.quit_calls = device.quit_calls + 1
              /\ ~running'
              /\ pc' = IF execMode = "dedicated" THEN "exited" ELSE "loop"
          /\ device'.quit_calls # device.quit_calls =>
              Handles("Quit") /\ running]_vars

\* a stepped session handled the first of two Quit messages; the second one
\* stays on the channel
C29_Witness ==
    /\ execMode = "main"
    /\ ~running
    /\ device.quit_calls = 1
    /\ receiver # <<>>
    /\ Head(receiver).type = "Quit"

\* C30: the handling of SetEventDest or UpdateClipPlanes sends no Frame, makes
\* no render or wait call, leaves frame_count and running as they are, and
\* changes of the device only the event destination, or the clip planes, which
\* become the near and far of the message.
C30_NoFrameSideEffects ==
    [][/\ (Handles("SetEventDest") \/ Handles("UpdateClipPlanes")) =>
           /\ frames' = frames
           /\ emitted' = emitted
           /\ frame_count' = frame_count
           /\ running' = running
           /\ ~InWait'
       /\ Handles("SetEventDest") =>
           device' = [device EXCEPT !.event_dest = Head(receiver).dest]
       /\ Handles("UpdateClipPlanes") =>
           device' = [device EXCEPT !.clip_planes =
                                        <<Head(receiver).near, Head(receiver).far>>]]_vars

\* both messages were handled before any frame was asked for
C30_Witness ==
    /\ device.clip_planes # NoValue
    /\ device.event_dest = "dest1"
    /\ device.wait_calls = 0
    /\ frame_count = 0
    /\ running


\* the device as SessionThread::new received it: no call was made on it
UntouchedDevice ==
    /\ device.event_dest = NoValue
    /\ device.clip_planes = NoValue
    /\ device.render_calls = 0
    /\ device.wait_calls = 0
    /\ device.quit_calls = 0
    /\ frame_count = 0
    /\ frames = <<>>

\* C21, as claimed: the caller of spawn has received the Session before the
\* run loop takes its first message off the control channel.
C21_ReceivedBeforeFirstMessage ==
    [][execMode = "dedicated" /\ HandlesAny => caller = "returned"]_vars

\* C21, amended: the worker takes the snapshot and sends the acknowledgment
\* before it handles any message, and spawn returns only after the
\* acknowledgment was sent or its channel broke, with what was sent; the only
\* message the loop can handle before the caller has received the Session is
\* a Quit sent through the Quitter that SessionThread::new gave the device.
C21_AckBeforeFirstMessage ==
    /\ [](execMode = "dedicated" /\ ack = EmptyChannel => UntouchedDevice /\ pc # "exited")
    /\ [][execMode = "dedicated" =>
            /\ HandlesAny => ack = Ok(new_session)
            /\ HandlesAny /\ caller # "returned" => Handles("Quit")
            /\ ack = EmptyChannel /\ ack' # EmptyChannel =>
                   /\ receiver' = receiver
                   /\ caller' = caller
                   /\ ack'.tag = "Ok" => ack' = Ok(new_session) /\ pc' = "recv"
            /\ caller = "blocked" /\ caller' = "returned" =>
                   /\ ack # EmptyChannel
                   /\ ack.tag = "Ok" => returned' = ack /\ handle' = ack.value
       ]_vars

\* the caller of spawn holds the Session and the loop has since handled a
\* SetEventDest sent through it
C21_Witness ==
    /\ execMode = "dedicated"
    /\ caller = "returned"
    /\ returned = Ok(new_session)
    /\ handle = new_session
    /\ device.event_dest # NoValue
    /\ pc = "recv"

\* C22: when the factory or SessionThread::new fails inside spawn, spawn
\* returns exactly that error, the worker never enters the run loop and
\* handles no message, and no Session exists; when the acknowledgment channel
\* is broken (the worker died without sending, or the channel could not be
\* made) spawn returns CommunicationError.
C22_FailureIsReturned ==
    /\ execMode = "dedicated" /\ built.tag = "Err" =>
           /\ pc \in {"built", "failed"}
           /\ receiver = <<>>
           /\ UntouchedDevice
           /\ handle = NoSession
           /\ ack \in {EmptyChannel, built}
           /\ caller = "returned" => returned = built
    /\ execMode = "dedicated" /\ built = Panicked =>
           /\ pc = "failed"
           /\ ack = BrokenChannel
           /\ UntouchedDevice
           /\ handle = NoSession
           /\ caller = "returned" => returned = Err("CommunicationError")
    /\ execMode = "dedicated" /\ built = NoResult /\ caller = "returned" =>
           /\ pc = "unspawned"
           /\ returned = Err("CommunicationError")
           /\ handle = NoSession

\* spawn has returned the UnsupportedFeature of the factory
C22_Witness ==
    /\ execMode = "dedicated"
    /\ caller = "returned"
    /\ built = Err("UnsupportedFeature")
    /\ returned = Err("UnsupportedFeature")
    /\ pc = "failed"

\* C23: run_on_main_thread, when the factory and the construction succeed,
\* appends exactly one SessionThread to the steppable list and returns its
\* Session; when either fails it returns that error and leaves the list as it
\* was.
C23_MainThreadRegisters ==
    [][execMode = "main" /\ caller = "ready" /\ caller' = "returned" =>
           IF built'.tag = "Ok"
           THEN /\ Len(sessions') = Len(sessions) + 1
                /\ SubSeq(sessions', 1, Len(sessions)) = sessions
                /\ sessions'[Len(sessions')].running
                /\ returned' = Ok(new_session)
                /\ handle' = new_session
           ELSE /\ sessions' = sessions
                /\ returned' = built'
                /\ handle' = NoSession
      ]_vars

\* run_on_main_thread has returned a Session and the list that held one
\* session holds two
C23_Witness ==
    /\ execMode = "main"
    /\ caller = "returned"
    /\ returned = Ok(new_session)
    /\ Len(sessions) = MaxSessions + 1
    /\ pc = "idle"

\* C24: apply_event(UpdateViews) replaces only the cached views and
\* apply_event(UpdateFloorTransform) only the cached floor transform; the
\* resolution, granted features, blend mode, initial inputs and id keep their
\* creation-time value, and no operation of the Session that sends a message
\* changes any cached field.
C24_OnlyViewsAndFloorChange ==
    /\ [](/\ handle.resolution = new_session.resolution
          /\ handle.granted_features = new_session.granted_features
          /\ handle.environment_blend_mode = new_session.environment_blend_mode
          /\ handle.initial_inputs = new_session.initial_inputs
          /\ handle.id = new_session.id)
    /\ [][/\ handle'.views # handle.views =>
                 handle' = [handle EXCEPT !.views = handle'.views]
          /\ handle'.floor_transform # handle.floor_transform =>
                 handle' = [handle EXCEPT !.floor_transform = handle'.floor_transform]
          /\ handle'.views \in Views \cup {new_session.views}
          /\ handle'.floor_transform \in FloorTransforms \cup {new_session.floor_transform}
          /\ ContentSend => handle' = handle
       ]_vars

\* both events were applied to a Session that also started a render loop and
\* updated the clip planes
C24_Witness ==
    /\ handle.views = "views1"
    /\ handle.floor_transform = "floor1"
    /\ handle.resolution = "resolution0"
    /\ startSent = 1
    /\ device.clip_planes # NoValue


\* C25: no two sessions created through the registry carry the same
\* SessionId, whether they were built for successive RequestSession messages
\* or after failed Discovery attempts of one RequestSession: every id handed
\* out lies below the counter, and the ids of the created sessions are
\* pairwise different.
C25_SessionIdsUnique ==
    /\ \A i \in DOMAIN created : created[i] < next_session_id
    /\ \A i, j \in DOMAIN created : i # j => created[i] # created[j]

\* two sessions were created, each by the second Discovery asked, after the
\* first one refused
C25_Witness ==
    /\ Len(created) = 2
    /\ created[1] = SessionIdOf(0, 2)
    /\ created[2] = SessionIdOf(AllocatedAfter(0, 2), 2)
    /\ next_session_id = AllocatedAfter(AllocatedAfter(0, 2), 2)


\* the StartRenderLoop messages handled so far: each handled StartRenderLoop
\* and each handled RenderAnimationFrame waits once, and frame_count counts
\* the latter
StartsHandled == device.wait_calls - frame_count

\* the Frames enqueued so far on the output channel
FramesEnqueued == emitted.start + emitted.raf

\* C31: the Frames enqueued never exceed the StartRenderLoop messages handled
\* plus frame_count, and each handled StartRenderLoop or RenderAnimationFrame
\* enqueues at most one Frame: a step enqueues at most one, only when a wait
\* returns, and the Frames of either kind never exceed the messages of that
\* kind handled.
C31_FramesBounded ==
    /\ [](/\ FramesEnqueued <= StartsHandled + frame_count
          /\ emitted.start <= StartsHandled
          /\ emitted.raf <= frame_count)
    /\ [][/\ StartsHandled' = IF Handles("StartRenderLoop")
                              THEN StartsHandled + 1
                              ELSE StartsHandled
          /\ FramesEnqueued' \in {FramesEnqueued, FramesEnqueued + 1}
          /\ Len(frames') <= Len(frames) + 1
          /\ FramesEnqueued' # FramesEnqueued =>
                 /\ InWait
                 /\ ~InWait'
                 /\ frames' = Append(frames, frames'[Len(frames')])
          /\ HandlesAny => FramesEnqueued' = FramesEnqueued
       ]_vars

\* a StartRenderLoop and MaxFrames RenderAnimationFrame messages were handled
\* and each got its Frame
C31_Witness ==
    /\ StartsHandled = MaxStarts
    /\ frame_count = MaxFrames
    /\ FramesEnqueued = MaxStarts + MaxFrames
    /\ ~InWait


\* the pair of the last call on the layer manager
LastPair == <<last_call.context_id, last_call.layer_id>>

\* C32: after a successful create_layer, layers() holds the pair (context_id,
\* new layer id) exactly once; after a destroy_layer of a created pair that
\* found the context, layers() no longer holds the pair.
C32_CreatedOnceDestroyedGone ==
    /\ last_call.op = "create_layer" /\ last_call.result = "Ok" =>
           Count(layer_ids, LastPair) = 1
    /\ last_call.op = "destroy_layer" /\ last_call.found /\ LastPair \in created_layers =>
           Count(layer_ids, LastPair) = 0


\* C33: after any sequence of create_layer and destroy_layer calls, with any
\* context and layer ids, every pair that layers() returns has an entry in
\* the layer map of the manager, and begin_frame over layers() does not fail
\* with NoMatchingDevice.
C33_LayersHaveEntries ==
    /\ \A i \in DOMAIN layer_ids : layer_ids[i][2] \in layer_map
    /\ last_call.op = "begin_frame" => last_call.result = "Ok"

====
